---- MODULE Spec2Model ----
(***************************************************************************)
(* A model of urlchecker.py: URLChecker.check_url (one probe: HEAD, the    *)
(* GET fallbacks, the three except clauses), process_batch (one task per   *)
(* URL behind an asyncio.Semaphore, joined by asyncio.gather) and          *)
(* process_urls (the batch loop, the accepted status codes, the fold loop  *)
(* over the collected results, the two time stamps).                       *)
(*                                                                         *)
(* One action is one run of the event loop: the code a task executes       *)
(* between two awaits.  The network is the environment: each awaited       *)
(* request either returns a response (a status and a Content-Length        *)
(* header) or raises an exception.                                         *)
(***************************************************************************)
EXTENDS Integers, Sequences, FiniteSets, TLC

VARIABLES
    urls,           \* process_urls' argument: the list of URLs
    concurrency,    \* args.concurrency
    include,        \* args.include: None, or a string of comma-separated codes
    pbar,           \* the progress bar handed to check_url, or None
    net,            \* what the network may answer: [head, get] sets of events
    runpc,          \* where process_urls is: NotStarted, Running, Folding, Completed
    i,              \* the batch loop's index (line 124), 0-based as in the code
    pc,             \* per URL position: where its bounded_check task is
    outcome,        \* per URL position: the dict check_url returned, or None
    log,            \* per URL position: the requests that ended, and how
    caught,         \* per URL position: the exception the outer try caught
    semaphore,      \* the asyncio.Semaphore's counter
    pbar_n,         \* the number of pbar.update(1) calls
    all_results,    \* line 123
    k,              \* the fold loop's position in results (line 139), 1-based
    results,        \* self.results: status -> size -> list of URLs
    errors,         \* self.errors
    stats           \* self.stats

vars == <<urls, concurrency, include, pbar, net, runpc, i, pc, outcome, log,
          caught, semaphore, pbar_n, all_results, k, results, errors, stats>>

----------------------------------------------------------------------------
(* Bounds of the model. *)

MaxN == 3               \* the longest URL list
MaxConcurrency == 2     \* the largest args.concurrency
ModelBatchSize == 2     \* the batch size the model runs with
MaxEntries == 2         \* the most comma-separated entries of args.include

(* Python's None and a present value: None is the empty tuple, a value v   *)
(* is <<v>>, so that the two compare in TLC.                               *)
None == <<>>
Some(v) == <<v>>
Val(o) == o[1]

URLs == <<"A", "B", "C", "D", "E">>

----------------------------------------------------------------------------
(* int(): Python's conversion of a string to an integer.  A string is a    *)
(* tuple of one-character strings.  int() strips blanks at both ends,      *)
(* takes an optional sign, then decimal digits, and raises ValueError on   *)
(* anything else over the model's alphabet (digits, sign, blank, letters), *)
(* the empty string included.                                              *)

DigitValue(c) ==
    CASE c = "0" -> 0 [] c = "1" -> 1 [] c = "2" -> 2 [] c = "3" -> 3
      [] c = "4" -> 4 [] c = "5" -> 5 [] c = "6" -> 6 [] c = "7" -> 7
      [] c = "8" -> 8 [] c = "9" -> 9

IsDigit(c) == c \in {"0", "1", "2", "3", "4", "5", "6", "7", "8", "9"}

RECURSIVE lstrip(_)
lstrip(s) == IF s # <<>> /\ Head(s) = " " THEN lstrip(Tail(s)) ELSE s

RECURSIVE rstrip(_)
rstrip(s) ==
    IF s # <<>> /\ s[Len(s)] = " " THEN rstrip(SubSeq(s, 1, Len(s) - 1)) ELSE s

strip(s) == rstrip(lstrip(s))

RECURSIVE DecimalValue(_)
DecimalValue(s) ==
    IF s = <<>> THEN 0
    ELSE 10 * DecimalValue(SubSeq(s, 1, Len(s) - 1)) + DigitValue(s[Len(s)])

(* int(s): [ok |-> TRUE, value |-> n], or [ok |-> FALSE] for ValueError. *)
int(s) ==
    LET t == strip(s)
        signed == t # <<>> /\ Head(t) \in {"+", "-"}
        digits == IF signed THEN Tail(t) ELSE t
    IN  IF digits # <<>> /\ \A j \in 1..Len(digits) : IsDigit(digits[j])
        THEN [ok |-> TRUE,
              value |-> IF signed /\ Head(t) = "-"
                        THEN 0 - DecimalValue(digits) ELSE DecimalValue(digits)]
        ELSE [ok |-> FALSE, value |-> 0]

----------------------------------------------------------------------------
(* The network.  An awaited request ends in an event: a response with its  *)
(* status and Content-Length header (None when the header is absent), or   *)
(* an exception.  The exceptions are named by their class:                 *)
(*   TimeoutError          asyncio.TimeoutError, what ClientTimeout(total) *)
(*                         raises when the request's time is up            *)
(*   ClientConnectorError  aiohttp: name resolution or connect failed      *)
(*   ClientResponseError   aiohttp: any other ClientError                  *)
(*   RuntimeError          an exception outside aiohttp's hierarchy        *)
(*   ValueError            what int() raises on a malformed header         *)

Response(status, content_length) ==
    [kind |-> "response", status |-> status,
     content_length |-> content_length, exc |-> "-"]

Raises(exc) ==
    [kind |-> "raise", status |-> 0, content_length |-> None, exc |-> exc]

IsClientError(exc) == exc \in {"ClientConnectorError", "ClientResponseError"}

IsTimeoutError(exc) == exc = "TimeoutError"

(* 'except aiohttp.ClientError' in the place of ClientConnectorError. *)
IsClientConnectorError_wide(exc) ==
    exc \in {"ClientConnectorError", "ClientResponseError"}

IsClientConnectorError(exc) == exc = "ClientConnectorError"

(* A last clause that catches aiohttp's and asyncio's exceptions only. *)
IsException_narrow(exc) ==
    exc \in {"TimeoutError", "ClientConnectorError", "ClientResponseError"}

IsException(exc) ==
    exc \in {"TimeoutError", "ClientConnectorError", "ClientResponseError",
             "RuntimeError", "ValueError"}

----------------------------------------------------------------------------
(* check_url, between its awaits. *)

(* Lines 70-71, 73-74, 78-79:                                              *)
(*   size = int(content_length) if content_length else None                *)
(* An absent header and an empty one are falsy.                            *)
SizeOf(content_length) ==
    IF content_length = None \/ Val(content_length) = <<>>
    THEN [raised |-> FALSE, size |-> None]
    ELSE LET r == int(Val(content_length))
         IN  IF r.ok THEN [raised |-> FALSE, size |-> Some(r.value)]
                     ELSE [raised |-> TRUE, size |-> None]

(* Lines 84-89: the dict of a probe that got a response; 'size or 0'. *)
Success(url, status, size) ==
    [url |-> url, status |-> Some(status),
     size |-> IF size = None \/ Val(size) = 0 THEN Some(0) ELSE size,
     error |-> None]

Failure(url, error) ==
    [url |-> url, status |-> None, size |-> None, error |-> Some(error)]

(* The outer try without its ClientConnectorError clause. *)
ExceptClause_no_connector(exc) ==
    IF IsTimeoutError(exc) THEN 1
    ELSE IF IsException(exc) THEN 3
    ELSE 0

(* Lines 90-101: the except clauses of the outer try, in their order.  The *)
(* number of the first clause that catches exc, 0 when none does.          *)
ExceptClause(exc) ==
    IF IsTimeoutError(exc) THEN 1
    ELSE IF IsClientConnectorError(exc) THEN 2
    ELSE IF IsException(exc) THEN 3
    ELSE 0

(* The error string each clause returns, without the exception's text      *)
(* ('DNS/Connection: ' and 'Error: ' are followed by str(e)[:100]).        *)
ErrorOf(clause) ==
    CASE clause = 1 -> "Timeout"
      [] clause = 2 -> "DNS/Connection"
      [] clause = 3 -> "Error"

(* 501 left out. *)
FallbackStatuses_405 == {405}

(* Line 67: the HEAD statuses answered by a GET. *)
FallbackStatuses == {405, 501}

(* An inner 'except Exception', which takes the timeout too. *)
InnerCatches_all(exc) == TRUE

(* Line 75: the inner except clause, around the HEAD and the GET nested in it. *)
InnerCatches(exc) == IsClientError(exc)

----------------------------------------------------------------------------
(* The configuration and the state after URLChecker.__init__. *)

N == Len(urls)

(* Line 115.  The code's batches hold 1000 URLs; the model's hold          *)
(* ModelBatchSize, so that a list of MaxN URLs spans more than one batch.  *)
batch_size == ModelBatchSize

(* The redirects left out. *)
default_status_codes_no_3xx == {200, 403}

(* Line 36. *)
default_status_codes == {200} \cup (300..399) \cup {403}

(* str.split(','): the pieces of s between its commas. *)
RECURSIVE split(_)
split(s) ==
    IF \E j \in 1..Len(s) : s[j] = ","
    THEN LET j == CHOOSE c \in 1..Len(s) :
                    s[c] = "," /\ \A b \in 1..(c - 1) : s[b] # ","
         IN  <<SubSeq(s, 1, j - 1)>> \o split(SubSeq(s, j + 1, Len(s)))
    ELSE <<s>>

(* The loop of lines 133-137 over the pieces: int(code.strip()) is added,  *)
(* a ValueError is passed over.                                            *)
RECURSIVE AddCodes(_, _)
AddCodes(codes, pieces) ==
    IF pieces = <<>> THEN codes
    ELSE LET r == int(strip(Head(pieces)))
         IN  AddCodes(IF r.ok THEN codes \cup {r.value} ELSE codes, Tail(pieces))

(* One try around the whole loop: the first ValueError ends it. *)
RECURSIVE AddCodes_until_error(_, _)
AddCodes_until_error(codes, pieces) ==
    IF pieces = <<>> THEN codes
    ELSE LET r == int(strip(Head(pieces)))
         IN  IF r.ok THEN AddCodes_until_error(codes \cup {r.value}, Tail(pieces))
                     ELSE codes

IncludedCodes_until_error(inc) ==
    IF inc = None \/ Val(inc) = <<>>
    THEN default_status_codes
    ELSE AddCodes_until_error(default_status_codes, split(Val(inc)))

(* Lines 131-137: an absent and an empty args.include are falsy. *)
IncludedCodes(inc) ==
    IF inc = None \/ Val(inc) = <<>>
    THEN default_status_codes
    ELSE AddCodes(default_status_codes, split(Val(inc)))

included_codes == IncludedCodes(include)

(* The slice urls[i:i + batch_size - 1]: one URL short. *)
Batch_short(lo) == {p \in 1..Len(urls) : lo < p /\ p < lo + ModelBatchSize}

(* Line 125: the positions of urls[i:i + batch_size], 1-based. *)
Batch(lo) == {p \in 1..N : lo < p /\ p <= lo + batch_size}

(* The events the full-run specification draws from, and the richer ones   *)
(* the single-probe specification draws from.                              *)
RunNet ==
    [head |-> {Response(200, Some(<<"1", "2", "0">>)), Response(301, None),
               Response(404, None), Response(405, None),
               Raises("TimeoutError"), Raises("ClientConnectorError"),
               Raises("RuntimeError")},
     get  |-> {Response(200, None),
               Raises("TimeoutError"), Raises("ClientConnectorError")}]

ProbeStatuses == {200, 301, 403, 404, 405, 500, 501}

ProbeHeaders ==
    {None, Some(<<>>), Some(<<"0">>), Some(<<"1", "2", "0">>), Some(<<"x">>),
     Some(<<"-", "1">>), Some(<<" ", "7">>), Some(<<"1", "2", "a">>)}

ProbeExceptions ==
    {"TimeoutError", "ClientConnectorError", "ClientResponseError",
     "RuntimeError"}

ProbeEvents ==
    {Response(st, cl) : st \in ProbeStatuses, cl \in ProbeHeaders}
        \cup {Raises(exc) : exc \in ProbeExceptions}

ProbeNet == [head |-> ProbeEvents, get |-> ProbeEvents]

(* Line 122: the progress bar process_urls creates. *)
tqdm == Some("tqdm")

InitArgs(n, c, world, inc, bar) ==
    /\ urls = SubSeq(URLs, 1, n)
    /\ concurrency = c
    /\ include = inc
    /\ pbar = bar
    /\ net = world
    /\ runpc = "NotStarted"
    /\ i = 0
    /\ pc = [p \in 1..n |-> "pending"]
    /\ outcome = [p \in 1..n |-> None]
    /\ log = [p \in 1..n |-> <<>>]
    /\ caught = [p \in 1..n |-> None]
    /\ semaphore = 0
    /\ pbar_n = 0
    /\ all_results = <<>>
    /\ k = 0
    /\ results = <<>>
    /\ errors = <<>>
    /\ stats = [total |-> 0, valid |-> 0, errors |-> 0,
                start_time |-> None, end_time |-> None]

(* The events of the scenario of four URLs: A answers 200 with 120 bytes,  *)
(* B 404, C times out, D answers 301 with a Content-Length of 0; and those *)
(* of a 405 with its GET, which the scenario does not use.                 *)
ScenarioNet ==
    [head |-> {Response(200, Some(<<"1", "2", "0">>)), Response(404, None),
               Raises("TimeoutError"), Response(301, Some(<<"0">>)),
               Response(405, None)},
     get  |-> {Response(200, None), Raises("ClientConnectorError")}]

(* args.include not given. *)
InitWith(n, c, world) == InitArgs(n, c, world, None, tqdm)

Init == \E n \in 0..MaxN, c \in 1..MaxConcurrency : InitWith(n, c, RunNet)

InitProbe == InitWith(1, 1, ProbeNet)

(* Four URLs, args.include not given. *)
InitScenario ==
    \E c \in 1..MaxConcurrency : InitArgs(4, c, ScenarioNet, None, tqdm)

----------------------------------------------------------------------------
(* process_urls up to its first await, and process_batch. *)

(* time.time(): the model's clock reads 1 at the start and 2 at the end. *)
time(reading) == Some(reading)

(* One process_batch call over all the URLs that are left. *)
Scheduled_rest(lo) == [p \in 1..Len(urls) |-> IF lo < p THEN "waiting" ELSE pc[p]]

(* Lines 104-110: one bounded_check task per URL of the batch, created in  *)
(* the order of the URLs; each first waits for the semaphore.              *)
Scheduled(lo) == [p \in 1..N |-> IF p \in Batch(lo) THEN "waiting" ELSE pc[p]]

(* Lines 113-126. *)
StartRun ==
    /\ runpc = "NotStarted"
    /\ stats' = [stats EXCEPT !.start_time = time(1)]
    /\ IF concurrency < 0
       THEN \* asyncio.Semaphore raises ValueError on a negative value
            /\ runpc' = "Aborted"
            /\ UNCHANGED <<pc, semaphore, k>>
       ELSE /\ semaphore' = concurrency
            /\ IF N = 0
               THEN runpc' = "Folding" /\ k' = 1 /\ UNCHANGED pc
               ELSE runpc' = "Running" /\ pc' = Scheduled(0) /\ UNCHANGED k
    /\ UNCHANGED <<urls, concurrency, include, pbar, net, i, outcome, log,
                   caught, pbar_n, all_results, results, errors>>

(* A semaphore that lets one task more in. *)
locked_late == semaphore < 0

(* asyncio.Semaphore.locked(). *)
locked == semaphore <= 0

(* The semaphore wakes its waiters in the order they came, which is the    *)
(* order the tasks were created in.                                        *)
NextWaiter(p) == \A q \in 1..N : pc[q] = "waiting" => p <= q

(* Lines 107-108 and 64: the task gets a permit, enters check_url and      *)
(* issues the HEAD request.                                                *)
Acquire(p) ==
    /\ runpc = "Running"
    /\ pc[p] = "waiting"
    /\ NextWaiter(p)
    /\ ~locked
    /\ semaphore' = semaphore - 1
    /\ pc' = [pc EXCEPT ![p] = "head"]
    /\ UNCHANGED <<urls, concurrency, include, pbar, net, runpc, i,
                   outcome, log, caught, pbar_n, all_results, k, results,
                   errors, stats>>

----------------------------------------------------------------------------
(* check_url from one await to the next, or to its return. *)

(* acquire() without a release. *)
release_never(value) == value

(* Line 107: leaving 'async with semaphore' gives the permit back. *)
release(value) == value + 1

(* pbar.update(1) is missing in the except clauses. *)
Return_silent_failure(p, dict) ==
    /\ pc' = [pc EXCEPT ![p] = "done"]
    /\ outcome' = [outcome EXCEPT ![p] = Some(dict)]
    /\ pbar_n' = IF pbar # None /\ dict.error = None THEN pbar_n + 1 ELSE pbar_n
    /\ semaphore' = semaphore + 1
    /\ UNCHANGED runpc

(* The permit is given back on the success path only. *)
Return_leak(p, dict) ==
    /\ pc' = [pc EXCEPT ![p] = "done"]
    /\ outcome' = [outcome EXCEPT ![p] = Some(dict)]
    /\ pbar_n' = pbar_n + 1
    /\ semaphore' = IF dict.error # None THEN semaphore ELSE semaphore + 1
    /\ UNCHANGED runpc

(* check_url returns dict: 'if pbar: pbar.update(1)' (lines 81-82, 91-92,  *)
(* 95-96, 99-100), the return, and bounded_check leaving 'async with       *)
(* semaphore'.                                                             *)
Return(p, dict) ==
    /\ pc' = [pc EXCEPT ![p] = "done"]
    /\ outcome' = [outcome EXCEPT ![p] = Some(dict)]
    /\ pbar_n' = IF pbar # None THEN pbar_n + 1 ELSE pbar_n
    /\ semaphore' = release(semaphore)
    /\ UNCHANGED runpc

(* check_url without its outer try: the exception leaves the task and     *)
(* asyncio.gather raises it in process_urls.                               *)
Raise_propagates(p, exc) ==
    /\ caught' = [caught EXCEPT ![p] = Some(exc)]
    /\ pc' = [pc EXCEPT ![p] = "raised"]
    /\ runpc' = "Aborted"
    /\ semaphore' = semaphore + 1
    /\ UNCHANGED <<outcome, pbar_n>>

(* exc reaches the outer try (lines 55, 90-101).  An exception no clause   *)
(* catches leaves check_url and bounded_check, which still gives the       *)
(* permit back, and asyncio.gather raises it in process_urls.              *)
Raise(p, exc) ==
    /\ caught' = [caught EXCEPT ![p] = Some(exc)]
    /\ IF ExceptClause(exc) = 0
       THEN /\ pc' = [pc EXCEPT ![p] = "raised"]
            /\ runpc' = "Aborted"
            /\ semaphore' = release(semaphore)
            /\ UNCHANGED <<outcome, pbar_n>>
       ELSE Return(p, Failure(urls[p], ErrorOf(ExceptClause(exc))))

(* Lines 69-71, 73-74, 77-79 and 81-89: the status and the size are taken  *)
(* from response e. *)
UseResponse(p, e) ==
    LET sz == SizeOf(e.content_length)
    IN  IF sz.raised
        THEN Raise(p, "ValueError")
        ELSE Return(p, Success(urls[p], e.status, sz.size)) /\ UNCHANGED caught

Logged(p, method, e) ==
    log' = [log EXCEPT ![p] = Append(@, [method |-> method, event |-> e])]

(* The GET of line 76 is issued. *)
Fallback(p) ==
    /\ pc' = [pc EXCEPT ![p] = "get_fallback"]
    /\ UNCHANGED <<runpc, outcome, caught, pbar_n, semaphore>>

(* Lines 64-68, 72-74: the HEAD request returns a response. *)
HeadResponse(p) ==
    /\ runpc = "Running"
    /\ pc[p] = "head"
    /\ \E e \in net.head :
          /\ e.kind = "response"
          /\ Logged(p, "HEAD", e)
          /\ IF e.status \in FallbackStatuses
             THEN /\ pc' = [pc EXCEPT ![p] = "get_nested"]
                  /\ UNCHANGED <<runpc, outcome, caught, pbar_n, semaphore>>
             ELSE UseResponse(p, e)
    /\ UNCHANGED <<urls, concurrency, include, pbar, net, i, all_results,
                   k, results, errors, stats>>

(* Lines 64, 75-76: the HEAD request raises. *)
HeadRaises(p) ==
    /\ runpc = "Running"
    /\ pc[p] = "head"
    /\ \E e \in net.head :
          /\ e.kind = "raise"
          /\ Logged(p, "HEAD", e)
          /\ IF InnerCatches(e.exc) THEN Fallback(p) ELSE Raise(p, e.exc)
    /\ UNCHANGED <<urls, concurrency, include, pbar, net, i, all_results,
                   k, results, errors, stats>>

(* Lines 68-71 or 76-79: a GET request returns a response. *)
GetResponse(p) ==
    /\ runpc = "Running"
    /\ pc[p] \in {"get_nested", "get_fallback"}
    /\ \E e \in net.get :
          /\ e.kind = "response"
          /\ Logged(p, "GET", e)
          /\ UseResponse(p, e)
    /\ UNCHANGED <<urls, concurrency, include, pbar, net, i, all_results,
                   k, results, errors, stats>>

(* Lines 68 or 76: a GET request raises.  The GET of line 68 is inside the *)
(* inner try, the GET of line 76 is inside its except clause.              *)
GetRaises(p) ==
    /\ runpc = "Running"
    /\ pc[p] \in {"get_nested", "get_fallback"}
    /\ \E e \in net.get :
          /\ e.kind = "raise"
          /\ Logged(p, "GET", e)
          /\ IF pc[p] = "get_nested" /\ InnerCatches(e.exc)
             THEN Fallback(p)
             ELSE Raise(p, e.exc)
    /\ UNCHANGED <<urls, concurrency, include, pbar, net, i, all_results,
                   k, results, errors, stats>>

----------------------------------------------------------------------------
(* process_urls after a batch. *)

(* The results taken in the opposite order, as a collection in completion  *)
(* order may give them.                                                    *)
gather_reversed(lo) ==
    LET n == Cardinality({p \in 1..Len(urls) : lo < p /\ p <= lo + ModelBatchSize})
    IN  [j \in 1..n |-> Val(outcome[lo + n + 1 - j])]

(* Line 110: asyncio.gather returns the tasks' results in the order of the *)
(* tasks, whatever order they ended in.                                    *)
gather(lo) ==
    [j \in 1..Cardinality(Batch(lo)) |-> Val(outcome[lo + j])]

(* Lines 126-129, then 124-126 again: the batch's tasks are all done; its  *)
(* results are appended and the next batch is scheduled, or the session is *)
(* closed and the fold loop begins.                                        *)
JoinBatch ==
    /\ runpc = "Running"
    /\ \A p \in Batch(i) : pc[p] = "done"
    /\ all_results' = all_results \o gather(i)
    /\ i' = i + batch_size
    /\ IF i + batch_size < N
       THEN /\ pc' = Scheduled(i + batch_size)
            /\ UNCHANGED <<runpc, k>>
       ELSE /\ runpc' = "Folding"
            /\ k' = 1
            /\ UNCHANGED pc
    /\ UNCHANGED <<urls, concurrency, include, pbar, net, outcome, log,
                   caught, semaphore, pbar_n, results, errors, stats>>

(* self.results[status][size] = [url]: the bucket is replaced. *)
Appended_replace(res, status, size, url) ==
    LET inner == IF status \in DOMAIN res THEN res[status] ELSE <<>>
    IN  [s \in DOMAIN res \cup {status} |->
            IF s = status
            THEN [z \in DOMAIN inner \cup {size} |->
                    IF z = size THEN <<url>> ELSE inner[z]]
            ELSE res[s]]

(* Line 149: self.results[status][size].append(url) on the defaultdicts. *)
Appended(res, status, size, url) ==
    LET inner == IF status \in DOMAIN res THEN res[status] ELSE <<>>
        lst == IF size \in DOMAIN inner THEN inner[size] ELSE <<>>
    IN  [s \in DOMAIN res \cup {status} |->
            IF s = status
            THEN [z \in DOMAIN inner \cup {size} |->
                    IF z = size THEN Append(lst, url) ELSE inner[z]]
            ELSE res[s]]

(* A response with a status that is not accepted is kept as an error. *)
fold_rejected_as_error(acc, result) ==
    IF result.error # None \/ Val(result.status) \notin included_codes
    THEN [stats   |-> [acc.stats EXCEPT !.total = @ + 1, !.errors = @ + 1],
          results |-> acc.results,
          errors  |-> Append(acc.errors, result)]
    ELSE [stats   |-> [acc.stats EXCEPT !.total = @ + 1, !.valid = @ + 1],
          results |-> Appended(acc.results, Val(result.status),
                               Val(result.size), result.url),
          errors  |-> acc.errors]

(* A failure is counted, and not kept. *)
fold_error_not_kept(acc, result) ==
    IF result.error # None
    THEN [stats   |-> [acc.stats EXCEPT !.total = @ + 1, !.errors = @ + 1],
          results |-> acc.results,
          errors  |-> acc.errors]
    ELSE IF Val(result.status) \in included_codes
    THEN [stats   |-> [acc.stats EXCEPT !.total = @ + 1, !.valid = @ + 1],
          results |-> Appended(acc.results, Val(result.status),
                               Val(result.size), result.url),
          errors  |-> acc.errors]
    ELSE [stats   |-> [acc.stats EXCEPT !.total = @ + 1],
          results |-> acc.results,
          errors  |-> acc.errors]

(* total is counted only for the results that are kept. *)
fold_total_kept(acc, result) ==
    IF result.error # None
    THEN [stats   |-> [acc.stats EXCEPT !.total = @ + 1, !.errors = @ + 1],
          results |-> acc.results,
          errors  |-> Append(acc.errors, result)]
    ELSE IF Val(result.status) \in included_codes
    THEN [stats   |-> [acc.stats EXCEPT !.total = @ + 1, !.valid = @ + 1],
          results |-> Appended(acc.results, Val(result.status),
                               Val(result.size), result.url),
          errors  |-> acc.errors]
    ELSE acc

(* Every result without an error is counted as valid. *)
fold_all_valid(acc, result) ==
    IF result.error # None
    THEN [stats   |-> [acc.stats EXCEPT !.total = @ + 1, !.errors = @ + 1],
          results |-> acc.results,
          errors  |-> Append(acc.errors, result)]
    ELSE [stats   |-> [acc.stats EXCEPT !.total = @ + 1, !.valid = @ + 1],
          results |-> IF Val(result.status) \in included_codes
                      THEN Appended(acc.results, Val(result.status),
                                    Val(result.size), result.url)
                      ELSE acc.results,
          errors  |-> acc.errors]

(* Lines 140-149: the body of the fold loop, on acc = [stats, results,      *)
(* errors] and one result dict.                                            *)
fold(acc, result) ==
    IF result.error # None
    THEN [stats   |-> [acc.stats EXCEPT !.total = @ + 1, !.errors = @ + 1],
          results |-> acc.results,
          errors  |-> Append(acc.errors, result)]
    ELSE IF Val(result.status) \in included_codes
    THEN [stats   |-> [acc.stats EXCEPT !.total = @ + 1, !.valid = @ + 1],
          results |-> Appended(acc.results, Val(result.status),
                               Val(result.size), result.url),
          errors  |-> acc.errors]
    ELSE [stats   |-> [acc.stats EXCEPT !.total = @ + 1],
          results |-> acc.results,
          errors  |-> acc.errors]

(* The fold loop run on what has been collected so far, while later        *)
(* batches are still being probed.                                         *)
Fold_eager ==
    /\ runpc \in {"Running", "Folding"}
    /\ stats.total < Len(all_results)
    /\ LET acc == fold([stats |-> stats, results |-> results, errors |-> errors],
                       all_results[stats.total + 1])
       IN  /\ stats' = acc.stats
           /\ results' = acc.results
           /\ errors' = acc.errors
    /\ k' = stats.total + 2
    /\ UNCHANGED <<urls, concurrency, include, pbar, net, runpc, i, pc,
                   outcome, log, caught, semaphore, pbar_n, all_results>>

(* Line 139: one iteration of the fold loop. *)
Fold ==
    /\ runpc = "Folding"
    /\ k <= Len(all_results)
    /\ LET acc == fold([stats |-> stats, results |-> results, errors |-> errors],
                       all_results[k])
       IN  /\ stats' = acc.stats
           /\ results' = acc.results
           /\ errors' = acc.errors
    /\ k' = k + 1
    /\ UNCHANGED <<urls, concurrency, include, pbar, net, runpc, i, pc,
                   outcome, log, caught, semaphore, pbar_n, all_results>>

(* end_time stamped while the fold loop is still running. *)
Finish_early ==
    /\ runpc = "Folding"
    /\ stats' = [stats EXCEPT !.end_time = time(2)]
    /\ runpc' = "Completed"
    /\ UNCHANGED <<urls, concurrency, include, pbar, net, i, pc, outcome,
                   log, caught, semaphore, pbar_n, all_results, k, results,
                   errors>>

(* Line 151. *)
Finish ==
    /\ runpc = "Folding"
    /\ k > Len(all_results)
    /\ stats' = [stats EXCEPT !.end_time = time(2)]
    /\ runpc' = "Completed"
    /\ UNCHANGED <<urls, concurrency, include, pbar, net, i, pc, outcome,
                   log, caught, semaphore, pbar_n, all_results, k, results,
                   errors>>

Next ==
    \/ StartRun
    \/ \E p \in 1..N : Acquire(p)
    \/ \E p \in 1..N : HeadResponse(p)
    \/ \E p \in 1..N : HeadRaises(p)
    \/ \E p \in 1..N : GetResponse(p)
    \/ \E p \in 1..N : GetRaises(p)
    \/ JoinBatch
    \/ Fold
    \/ Finish

Spec == Init /\ [][Next]_vars

(* Runs over four URLs, the scenario's among them. *)
SpecScenario == InitScenario /\ [][Next]_vars

(* args.include: up to MaxEntries entries joined by commas.  The entries   *)
(* are "404", " 401", "x" and the empty one.                               *)
IncludeEntries ==
    {<<"4", "0", "4">>, <<" ", "4", "0", "1">>, <<"x">>, <<>>}

EntryLists == UNION {[1..n -> IncludeEntries] : n \in 0..MaxEntries}

RECURSIVE Join(_)
Join(entries) ==
    IF entries = <<>> THEN <<>>
    ELSE IF Len(entries) = 1 THEN entries[1]
    ELSE entries[1] \o <<",">> \o Join(Tail(entries))

IncludeNet ==
    [head |-> {Response(200, Some(<<"1", "2", "0">>)), Response(401, None),
               Response(404, None), Response(405, None),
               Raises("TimeoutError")},
     get  |-> {Response(404, None), Raises("ClientConnectorError")}]

InitInclude ==
    \E inc \in {None} \cup {Some(Join(es)) : es \in EntryLists} :
        InitArgs(1, 1, IncludeNet, inc, tqdm)

(* Runs over one URL with args.include given or not. *)
SpecInclude == InitInclude /\ [][Next]_vars

(* process_batch called with a progress bar or with None, and any         *)
(* args.concurrency that argparse's type=int lets through.                 *)
SinkNet ==
    [head |-> {Response(404, None), Response(405, None),
               Raises("TimeoutError"), Raises("ClientConnectorError"),
               Raises("RuntimeError")},
     get  |-> {Response(200, None), Raises("ClientConnectorError")}]

InitSink ==
    \E n \in 0..MaxN, c \in 1..MaxConcurrency, bar \in {None, tqdm} :
        InitArgs(n, c, SinkNet, None, bar)

SpecSink == InitSink /\ [][Next]_vars

InitAnyConcurrency ==
    \E n \in 0..MaxN, c \in (0 - 1)..MaxConcurrency :
        InitArgs(n, c, SinkNet, None, tqdm)

SpecAnyConcurrency == InitAnyConcurrency /\ [][Next]_vars

(* Runs over up to MaxN URLs, hence over more than one batch, with few     *)
(* events for each request.                                                *)
BatchNet ==
    [head |-> {Response(404, None), Response(405, None),
               Raises("TimeoutError"), Raises("ClientConnectorError")},
     get  |-> {Response(200, None), Raises("ClientConnectorError")}]

InitBatches ==
    \E n \in 0..MaxN, c \in 1..MaxConcurrency : InitWith(n, c, BatchNet)

SpecBatches == InitBatches /\ [][Next]_vars

(* The fold loop alone.  The state is the one process_urls is in when the  *)
(* last batch is joined: the URLs in any order, every probe done with any  *)
(* of the dicts check_url builds, all_results holding them in the order of *)
(* the URLs.  The probes' histories are not kept here.                     *)
FoldKinds == {"200/120", "200", "404", "Timeout", "Error"}

FoldDict(url, kind) ==
    CASE kind = "200/120" -> Success(url, 200, Some(120))
      [] kind = "200"     -> Success(url, 200, None)
      [] kind = "404"     -> Success(url, 404, None)
      [] OTHER            -> Failure(url, kind)

FoldDicts(url) == {FoldDict(url, kind) : kind \in FoldKinds}

InitFold ==
    \E n \in 0..MaxN, c \in 1..MaxConcurrency :
      \E order \in {f \in [1..n -> 1..n] : \A a, b \in 1..n : f[a] = f[b] => a = b} :
        /\ urls = [j \in 1..n |-> URLs[order[j]]]
        /\ \E kinds \in [1..n -> FoldKinds] :
              LET dicts == [j \in 1..n |-> FoldDict(urls[j], kinds[j])]
              IN  /\ \A j \in 1..n : dicts[j] \in FoldDicts(urls[j])
                  /\ all_results = dicts
                  /\ outcome = [j \in 1..n |-> Some(dicts[j])]
        /\ concurrency = c
        /\ include = None
        /\ pbar = tqdm
        /\ net = RunNet
        /\ runpc = "Folding"
        /\ i = batch_size * ((n + batch_size - 1) \div batch_size)
        /\ pc = [p \in 1..n |-> "done"]
        /\ log = [p \in 1..n |-> <<>>]
        /\ caught = [p \in 1..n |-> None]
        /\ semaphore = c
        /\ pbar_n = n
        /\ k = 1
        /\ results = <<>>
        /\ errors = <<>>
        /\ stats = [total |-> 0, valid |-> 0, errors |-> 0,
                    start_time |-> time(1), end_time |-> None]

NextFold ==
    \/ Fold
    \/ Finish

SpecFold == InitFold /\ [][NextFold]_vars

(* One URL, one permit, and every event of ProbeEvents: check_url alone. *)
SpecProbe == InitProbe /\ [][Next]_vars

----------------------------------------------------------------------------
(* What the properties speak of. *)

InFlightStates == {"head", "get_nested", "get_fallback"}

(* The probes that hold a permit and await a network response. *)
InFlight == {p \in 1..N : pc[p] \in InFlightStates}

Done(p) == pc[p] = "done"

IsSuccess(p) == Done(p) /\ Val(outcome[p]).error = None

IsFailure(p) == Done(p) /\ Val(outcome[p]).error # None

(* The probes that got a response whose status is not an accepted one. *)
NonAccepted ==
    {p \in 1..N : IsSuccess(p) /\ Val(Val(outcome[p]).status) \notin included_codes}

Collected == runpc \in {"Folding", "Completed"}

(* The positions of all_results that hold an outcome of URL u. *)
OutcomesOf(u) == {j \in 1..Len(all_results) : all_results[j].url = u}

----------------------------------------------------------------------------
(* C1: a run over N URLs hands exactly N outcomes to the fold, exactly one *)
(* for each URL, carrying that URL: while batches run no URL has more than *)
(* one outcome, and once the last batch is joined every URL has one.       *)
C1_OneOutcomePerUrl ==
    /\ Len(all_results) <= N
    /\ \A p \in 1..N : Cardinality(OutcomesOf(urls[p])) <= 1
    /\ \A j \in 1..Len(all_results) : \E p \in 1..N : all_results[j].url = urls[p]
    /\ Collected =>
          /\ Len(all_results) = N
          /\ \A p \in 1..N : Cardinality(OutcomesOf(urls[p])) = 1

C1_Witness ==
    /\ runpc = "Completed"
    /\ N = 3
    /\ Len(all_results) = 3
    /\ \E p, q \in 1..N : IsFailure(p) /\ IsSuccess(q)

(* C2: the probes that hold a permit and await a response (the HEAD or a   *)
(* GET) are never more than concurrency, hence never more than the smaller *)
(* of concurrency and the batch size.                                      *)
C2_InFlightBounded ==
    /\ Cardinality(InFlight) <= concurrency
    /\ Cardinality(InFlight) <= batch_size
    /\ InFlight \subseteq Batch(i)

(* All permits are taken and a scheduled probe waits for one. *)
C2_Witness ==
    /\ Cardinality(InFlight) = concurrency
    /\ \E p \in 1..N : pc[p] = "waiting"
    /\ \E p \in InFlight : pc[p] # "head"

(* C4: when the run is completed, total is N and is the sum of valid,      *)
(* errors and the number of responses with a status that is not accepted.  *)
C4_TotalIsSum ==
    runpc = "Completed" =>
        /\ stats.total = N
        /\ stats.total = stats.valid + stats.errors + Cardinality(NonAccepted)

C4_Witness ==
    /\ runpc = "Completed"
    /\ stats.valid >= 1
    /\ stats.errors >= 1
    /\ Cardinality(NonAccepted) >= 1

(* C5 as stated: when the run is completed, total = valid + errors and     *)
(* valid + errors = N.                                                     *)
C5_Original ==
    runpc = "Completed" =>
        /\ stats.total = stats.valid + stats.errors
        /\ stats.valid + stats.errors = N

(* C5, amended: when the run is completed, total = N and valid + errors is *)
(* N less the number of responses with a status that is not accepted; so   *)
(* total = valid + errors exactly when every response's status is accepted.*)
C5_ValidPlusErrors ==
    runpc = "Completed" =>
        /\ stats.total = N
        /\ stats.valid + stats.errors = N - Cardinality(NonAccepted)
        /\ (stats.total = stats.valid + stats.errors) <=> (NonAccepted = {})
        /\ stats.errors = Cardinality({p \in 1..N : IsFailure(p)})

C5_Witness ==
    /\ runpc = "Completed"
    /\ N = 3
    /\ Cardinality(NonAccepted) = 2
    /\ stats.valid + stats.errors = 1

(* C6: a permit is held exactly by the probes in flight: however a probe   *)
(* ends, its permit is back, so with no probe in flight (in particular     *)
(* when a batch has ended) all concurrency permits are free.               *)
C6_NoPermitLeak ==
    runpc # "NotStarted" =>
        /\ semaphore = concurrency - Cardinality(InFlight)
        /\ (InFlight = {} => semaphore = concurrency)
        /\ (\A p \in Batch(i) : Done(p)) => semaphore = concurrency

(* A batch has ended with a timeout, a connection error, another error and *)
(* a success among the run's probes, and all permits are free.             *)
C6_Witness ==
    /\ \A p \in Batch(i) : Done(p)
    /\ semaphore = concurrency
    /\ \E p \in 1..N : IsSuccess(p)
    /\ \E p \in 1..N : IsFailure(p) /\ Val(outcome[p]).error = Some("Timeout")
    /\ \E p \in 1..N : IsFailure(p) /\ Val(outcome[p]).error # Some("Timeout")
    /\ i > 0

----------------------------------------------------------------------------
(* The single probe's history. *)

IsResponse(entry) == entry.event.kind = "response"

IsRaise(entry) == entry.event.kind = "raise"

Last(seq) == seq[Len(seq)]

(* The status and the size a Success built from response e carries: the    *)
(* header's integer value, 0 for an absent or empty header or the value 0. *)
ReportedFrom(p, e) ==
    /\ Val(outcome[p]).status = Some(e.status)
    /\ Val(outcome[p]).size =
          IF SizeOf(e.content_length).size = None
          THEN Some(0) ELSE SizeOf(e.content_length).size

(* The exception that ended probe p: the one its last request raised, or   *)
(* the ValueError of int() on the header of its last response.             *)
EndedBy(p) ==
    IF IsRaise(Last(log[p])) THEN Last(log[p]).event.exc ELSE "ValueError"

(* C3: check_url ends every probe with a result dict: no exception leaves  *)
(* it (no task ends raised, the run is never aborted), a probe that caught *)
(* an exception returned a Failure, and only such a probe did.             *)
C3_NeverRaises ==
    /\ runpc # "Aborted"
    /\ \A p \in 1..N :
          /\ pc[p] # "raised"
          /\ Done(p) <=> outcome[p] # None
          /\ caught[p] # None => IsFailure(p)
          /\ IsFailure(p) =>
                /\ caught[p] # None
                /\ Val(outcome[p]).status = None
                /\ Val(outcome[p]).url = urls[p]

(* int() raised on the malformed header of a GET response, and the probe   *)
(* returned a Failure.                                                     *)
C3_Witness ==
    \E p \in 1..N :
        /\ IsFailure(p)
        /\ caught[p] = Some("ValueError")
        /\ Len(log[p]) = 2
        /\ IsResponse(log[p][2])

(* C8: after a HEAD response, the probe reports the GET's status and size  *)
(* if the HEAD status is 405 or 501, and otherwise the HEAD's, with no GET *)
(* issued.                                                                 *)
C8_FallbackOn405And501 ==
    \A p \in 1..N :
        (log[p] # <<>> /\ IsResponse(log[p][1])) =>
            LET head == log[p][1].event
            IN  IF head.status \in {405, 501}
                THEN /\ pc[p] # "head"
                     /\ IsSuccess(p) =>
                           /\ Len(log[p]) >= 2
                           /\ Last(log[p]).method = "GET"
                           /\ IsResponse(Last(log[p]))
                           /\ ReportedFrom(p, Last(log[p]).event)
                ELSE /\ Done(p)
                     /\ Len(log[p]) = 1
                     /\ IsSuccess(p) => ReportedFrom(p, head)

(* HEAD 405, then GET 200 with a size: 200 and that size are reported. *)
C8_Witness ==
    \E p \in 1..N :
        /\ IsSuccess(p)
        /\ Len(log[p]) = 2
        /\ log[p][1].event = Response(405, Some(<<"0">>))
        /\ log[p][2].event = Response(200, Some(<<"1", "2", "0">>))
        /\ Val(outcome[p]).status = Some(200)
        /\ Val(outcome[p]).size = Some(120)

(* C9: a failed probe's reason is decided by the exception that ended it:  *)
(* Timeout for a timeout, else DNS/Connection for a connector error, else  *)
(* Error; one reason, and no other.                                        *)
C9_Classification ==
    \A p \in 1..N :
        IsFailure(p) =>
            /\ caught[p] = Some(EndedBy(p))
            /\ Val(outcome[p]).error =
                  IF EndedBy(p) = "TimeoutError" THEN Some("Timeout")
                  ELSE IF EndedBy(p) = "ClientConnectorError"
                       THEN Some("DNS/Connection")
                       ELSE Some("Error")

(* A GET that another ClientError than a connector error ended. *)
C9_Witness ==
    \E p \in 1..N :
        /\ IsFailure(p)
        /\ EndedBy(p) = "ClientResponseError"
        /\ Val(outcome[p]).error = Some("Error")

(* C10: a request that times out, the HEAD or a GET after it, is the       *)
(* probe's last: the probe ends there with the reason Timeout.             *)
C10_TimeoutIsTimeout ==
    \A p \in 1..N :
        \A j \in 1..Len(log[p]) :
            (IsRaise(log[p][j]) /\ log[p][j].event.exc = "TimeoutError") =>
                /\ j = Len(log[p])
                /\ IsFailure(p)
                /\ Val(outcome[p]).error = Some("Timeout")

(* The GET after a 405 HEAD timed out. *)
C10_Witness ==
    \E p \in 1..N :
        /\ Done(p)
        /\ Len(log[p]) = 2
        /\ log[p][1].event.status = 405
        /\ log[p][2].method = "GET"
        /\ log[p][2].event = Raises("TimeoutError")
        /\ Val(outcome[p]).error = Some("Timeout")

(* C11: a probe whose every request fails to resolve or to connect (the    *)
(* HEAD, then the GET issued for it) ends as a Failure with the reason     *)
(* DNS/Connection: not Timeout, not Error, not a Success.                  *)
C11_NeverResolves ==
    \A p \in 1..N :
        (/\ Done(p)
         /\ \A j \in 1..Len(log[p]) :
               IsRaise(log[p][j]) /\ log[p][j].event.exc = "ClientConnectorError")
        => /\ IsFailure(p)
           /\ Val(outcome[p]).error = Some("DNS/Connection")
           /\ Val(outcome[p]).status = None

C11_Witness ==
    \E p \in 1..N :
        /\ Done(p)
        /\ Len(log[p]) = 2
        /\ log[p][1] = [method |-> "HEAD", event |-> Raises("ClientConnectorError")]
        /\ log[p][2] = [method |-> "GET", event |-> Raises("ClientConnectorError")]
        /\ Val(outcome[p]).error = Some("DNS/Connection")

(* The requests probe p has issued: those that ended and the one awaited. *)
Issued(p, method) ==
    Cardinality({j \in 1..Len(log[p]) : log[p][j].method = method})
        + (IF method = "HEAD" /\ pc[p] = "head" THEN 1 ELSE 0)
        + (IF method = "GET" /\ pc[p] \in {"get_nested", "get_fallback"}
           THEN 1 ELSE 0)

(* C12 as stated: a probe issues at most two requests, one HEAD and at     *)
(* most one GET; no request is issued again after it failed.               *)
C12_AtMostTwoRequests ==
    \A p \in 1..N :
        /\ Issued(p, "HEAD") <= 1
        /\ Issued(p, "GET") <= 1
        /\ Issued(p, "HEAD") + Issued(p, "GET") <= 2

----------------------------------------------------------------------------
(* The fold loop. *)

(* The results folded so far, in the order they were folded. *)
Folded == SubSeq(all_results, 1, IF k = 0 THEN 0 ELSE k - 1)

IsAccepted(result) ==
    result.error = None /\ Val(result.status) \in included_codes

IsRejected(result) ==
    result.error = None /\ Val(result.status) \notin included_codes

IsError(result) == result.error # None

UrlsOf(seq) == [j \in 1..Len(seq) |-> seq[j].url]

(* The URLs of the folded accepted results of one status and size, in the  *)
(* order they were folded.                                                 *)
FoldedInto(status, size) ==
    LET InBucket(result) ==
            /\ IsAccepted(result)
            /\ Val(result.status) = status
            /\ Val(result.size) = size
    IN  UrlsOf(SelectSeq(Folded, InBucket))

(* Every place of every bucket of results. *)
Places ==
    UNION {UNION {{<<s, z, j>> : j \in 1..Len(results[s][z])} :
                  z \in DOMAIN results[s]} : s \in DOMAIN results}

InSomeBucket(url) == \E pl \in Places : results[pl[1]][pl[2]][pl[3]] = url

(* The next step of the fold loop folds a result of the given kind. *)
Folding(Kind(_)) ==
    /\ runpc = "Folding"
    /\ k <= Len(all_results)
    /\ Kind(all_results[k])
    /\ k' = k + 1

(* C13: after any number of folds every status in results is an accepted   *)
(* one, valid is the number of URLs in all buckets, and every bucket holds *)
(* the URLs of the folded accepted results of its status and size, each    *)
(* appended after the earlier ones (so two URLs with the same status and   *)
(* size share a bucket, in fold order).                                    *)
C13_Buckets ==
    /\ \A s \in DOMAIN results :
          /\ s \in included_codes
          /\ \A z \in DOMAIN results[s] :
                /\ results[s][z] # <<>>
                /\ results[s][z] = FoldedInto(s, z)
    /\ stats.valid = Cardinality(Places)
    /\ \A j \in 1..Len(Folded) :
          IsAccepted(Folded[j]) =>
              /\ Val(Folded[j].status) \in DOMAIN results
              /\ Val(Folded[j].size) \in DOMAIN results[Val(Folded[j].status)]

(* A and C answered 200 with size 120, B something else. *)
C13_Witness ==
    /\ runpc = "Completed"
    /\ 200 \in DOMAIN results
    /\ 120 \in DOMAIN results[200]
    /\ results[200][120] = <<"A", "C">>
    /\ stats.valid = 2

(* C14: folding a response whose status is not accepted adds one to total  *)
(* and changes nothing else: valid, errors, the buckets and the failure    *)
(* sequence stay as they were, and the URL is in no bucket and not among   *)
(* the failures.                                                           *)
C14_RejectedCountsInTotalOnly ==
    /\ [][Folding(IsRejected) =>
            /\ stats' = [stats EXCEPT !.total = @ + 1]
            /\ results' = results
            /\ errors' = errors]_vars
    /\ [](\A j \in 1..Len(Folded) :
            IsRejected(Folded[j]) =>
                /\ ~InSomeBucket(Folded[j].url)
                /\ \A e \in 1..Len(errors) : errors[e].url # Folded[j].url)

(* A 404 was folded between a valid result and a failure. *)
C14_Witness ==
    /\ runpc = "Completed"
    /\ Len(Folded) = 3
    /\ IsAccepted(Folded[1])
    /\ IsRejected(Folded[2])
    /\ IsError(Folded[3])
    /\ stats = [total |-> 3, valid |-> 1, errors |-> 1,
                start_time |-> time(1), end_time |-> time(2)]

(* C15: folding a Failure appends it to the failure sequence and adds one  *)
(* to errors (and to total), leaving valid and the buckets as they were;   *)
(* so errors is the length of the failure sequence, which holds the folded *)
(* failures in fold order, every failed probe of a completed run exactly   *)
(* once, and no failed URL is in a bucket.                                 *)
C15_Failures ==
    /\ [][Folding(IsError) =>
            /\ errors' = Append(errors, all_results[k])
            /\ stats' = [stats EXCEPT !.total = @ + 1, !.errors = @ + 1]
            /\ results' = results]_vars
    /\ [](/\ stats.errors = Len(errors)
          /\ errors = SelectSeq(Folded, IsError)
          /\ \A e \in 1..Len(errors) : ~InSomeBucket(errors[e].url)
          /\ runpc = "Completed" =>
                \A p \in 1..N :
                    IsFailure(p) =>
                        Cardinality({e \in 1..Len(errors) :
                                        errors[e] = Val(outcome[p])}) = 1)

(* Two failures with a valid result between them. *)
C15_Witness ==
    /\ runpc = "Completed"
    /\ Len(errors) = 2
    /\ errors[1].url = "A"
    /\ errors[1].error = Some("Timeout")
    /\ errors[2].url = "C"
    /\ errors[2].error = Some("DNS/Connection")
    /\ stats.valid = 1

(* The one request of probe p was a HEAD that ended in event e. *)
OnlyHead(p, e) == log[p] = <<[method |-> "HEAD", event |-> e]>>

IsScenario ==
    /\ N = 4
    /\ include = None
    /\ OnlyHead(1, Response(200, Some(<<"1", "2", "0">>)))
    /\ OnlyHead(2, Response(404, None))
    /\ OnlyHead(3, Raises("TimeoutError"))
    /\ OnlyHead(4, Response(301, Some(<<"0">>)))

(* C16: the completed run over [A -> 200 with size 120, B -> 404,          *)
(* C -> timeout, D -> 301 with size 0], with the default accepted codes,   *)
(* has total = 4, valid = 2 with A alone in results[200][120] and D alone  *)
(* in results[301][0], errors = 1 with C the one failure, and B in neither.*)
C16_Scenario ==
    (runpc = "Completed" /\ IsScenario) =>
        /\ stats.total = 4
        /\ stats.valid = 2
        /\ stats.errors = 1
        /\ DOMAIN results = {200, 301}
        /\ DOMAIN results[200] = {120}
        /\ results[200][120] = <<"A">>
        /\ DOMAIN results[301] = {0}
        /\ results[301][0] = <<"D">>
        /\ errors = <<Failure("C", "Timeout")>>
        /\ ~InSomeBucket("B")

C16_Witness ==
    /\ runpc = "Completed"
    /\ IsScenario
    /\ stats.total = 4
    /\ results[301][0] = <<"D">>

Range(seq) == {seq[j] : j \in 1..Len(seq)}

(* The dicts of a set in the order of their URLs in URLs. *)
RECURSIVE InUrlOrder(_)
InUrlOrder(dicts) ==
    IF dicts = {} THEN <<>>
    ELSE LET Place(d) == CHOOSE q \in 1..Len(URLs) : URLs[q] = d.url
             first == CHOOSE d \in dicts : \A e \in dicts : Place(d) <= Place(e)
         IN  <<first>> \o InUrlOrder(dicts \ {first})

(* The fold loop run over seq from the empty results. *)
RECURSIVE FoldAll(_)
FoldAll(seq) ==
    IF seq = <<>>
    THEN [stats |-> [total |-> 0, valid |-> 0, errors |-> 0,
                     start_time |-> time(1), end_time |-> None],
          results |-> <<>>, errors |-> <<>>]
    ELSE fold(FoldAll(SubSeq(seq, 1, Len(seq) - 1)), seq[Len(seq)])

(* C17: whatever order a collection of outcomes is folded in, the counters *)
(* total, valid and errors, the set of failures, the statuses and sizes    *)
(* that have a bucket and the set of URLs of every bucket are those of     *)
(* folding the same collection in the order of the URLs' names; only the   *)
(* order inside a bucket or inside the failure sequence may differ.        *)
C17_FoldOrderIndependent ==
    LET other == FoldAll(InUrlOrder(Range(Folded)))
    IN  /\ stats.total = other.stats.total
        /\ stats.valid = other.stats.valid
        /\ stats.errors = other.stats.errors
        /\ Range(errors) = Range(other.errors)
        /\ DOMAIN results = DOMAIN other.results
        /\ \A s \in DOMAIN results :
              /\ DOMAIN results[s] = DOMAIN other.results[s]
              /\ \A z \in DOMAIN results[s] :
                    Range(results[s][z]) = Range(other.results[s][z])

(* C was folded before A into one bucket, and B failed before both. *)
C17_Witness ==
    /\ runpc = "Completed"
    /\ urls = <<"B", "C", "A">>
    /\ errors = <<Failure("B", "Error")>>
    /\ 200 \in DOMAIN results
    /\ 120 \in DOMAIN results[200]
    /\ results[200][120] = <<"C", "A">>
    /\ FoldAll(InUrlOrder(Range(Folded))).results[200][120] = <<"A", "C">>

(* The codes an entry of args.include stands for: one, or none. *)
CodesOf(entry) ==
    CASE entry = <<"4", "0", "4">> -> {404}
      [] entry = <<" ", "4", "0", "1">> -> {401}
      [] OTHER -> {}

DefaultAccepted == {c \in 0..999 : c = 200 \/ (300 <= c /\ c <= 399) \/ c = 403}

(* C18: the accepted set is 200, 300..399 and 403, and the code of every   *)
(* entry of args.include that is an integer; an entry that is none adds    *)
(* nothing, hides no entry before or after it and does not abort the run,  *)
(* whose fold keeps exactly the responses with a status of that set.       *)
C18_IncludedCodes ==
    /\ runpc # "Aborted"
    /\ include = None => included_codes = DefaultAccepted
    /\ \A es \in EntryLists :
          include = Some(Join(es)) =>
              LET accepted == DefaultAccepted
                                \cup UNION {CodesOf(es[j]) : j \in 1..Len(es)}
              IN  /\ included_codes = accepted
                  /\ runpc = "Completed" =>
                        \A p \in 1..N :
                            IsSuccess(p) =>
                                (InSomeBucket(urls[p])
                                   <=> Val(Val(outcome[p]).status) \in accepted)

(* args.include is "x,404": the URL answered 404 and is kept. *)
C18_Witness ==
    /\ include = Some(<<"x", ",", "4", "0", "4">>)
    /\ runpc = "Completed"
    /\ IsSuccess(1)
    /\ Val(outcome[1]).status = Some(404)
    /\ stats.valid = 1
    /\ InSomeBucket("A")

(* The dict a probe returns, read off the end of its last request. *)
DictFromLog(p) ==
    LET e == Last(log[p]).event
    IN  IF e.kind = "response"
        THEN IF SizeOf(e.content_length).raised
             THEN Failure(urls[p], "Error")
             ELSE Success(urls[p], e.status, SizeOf(e.content_length).size)
        ELSE Failure(urls[p],
                     IF e.exc = "TimeoutError" THEN "Timeout"
                     ELSE IF e.exc = "ClientConnectorError" THEN "DNS/Connection"
                     ELSE "Error")

(* C19: with a progress bar, pbar.update has been called once for every    *)
(* probe that returned its dict, however the probe ended, and for no       *)
(* other: the count is the number of done probes, N when all are done.     *)
(* Without one (pbar is None) nothing is called, and in both cases a probe *)
(* returns the dict its requests decide.                                   *)
C19_ProgressPerProbe ==
    /\ pbar # None => pbar_n = Cardinality({p \in 1..N : Done(p)})
    /\ (pbar # None /\ \A p \in 1..N : Done(p)) => pbar_n = N
    /\ pbar = None => pbar_n = 0
    /\ \A p \in 1..N : Done(p) => outcome[p] = Some(DictFromLog(p))

(* Three probes are done, one on each failure path or with a response. *)
C19_Witness ==
    /\ pbar # None
    /\ N = 3
    /\ pbar_n = 3
    /\ \A p \in 1..N : Done(p)
    /\ IsSuccess(1)
    /\ \E p, q \in 1..N :
          /\ IsFailure(p)
          /\ IsFailure(q)
          /\ Val(outcome[p]).error = Some("Timeout")
          /\ Val(outcome[q]).error \in {Some("DNS/Connection"), Some("Error")}

(* C20 as stated: a run with args.concurrency <= 0 never starts: its       *)
(* start_time is not stamped, no probe is scheduled, and it neither fails  *)
(* nor waits in the middle of the run.                                     *)
C20_RejectedBeforeStart ==
    concurrency <= 0 =>
        /\ runpc = "NotStarted"
        /\ stats.start_time = None
        /\ \A p \in 1..N : pc[p] = "pending"

----------------------------------------------------------------------------
(* The batches and the run's phases. *)

(* The number of the batch URL p is in, from 0. *)
BatchOf(p) == (p - 1) \div batch_size

Counters == <<stats.total, stats.valid, stats.errors>>

ResultSet == <<results, errors, Counters>>

ResultSetEmpty == ResultSet = <<(<<>>), (<<>>), (<<0, 0, 0>>)>>

(* C21: no probe of a batch is scheduled (or holds a permit) before every  *)
(* probe of the batches before it has produced its outcome; while the      *)
(* batches run, the probes of the batches before the current one are done, *)
(* those of the current one are all scheduled, and those of the batches    *)
(* after it are not.                                                       *)
C21_BatchesSequential ==
    /\ \A p, q \in 1..N :
          (BatchOf(p) < BatchOf(q) /\ pc[q] # "pending") =>
              (Done(p) /\ outcome[p] # None)
    /\ runpc = "Running" =>
          \A p \in 1..N :
              /\ p <= i => Done(p)
              /\ p \in Batch(i) => pc[p] # "pending"
              /\ p > i + batch_size => pc[p] = "pending"

(* The second batch is in flight, the first one is done. *)
C21_Witness ==
    /\ runpc = "Running"
    /\ i = batch_size
    /\ \E q \in Batch(i) : pc[q] \in InFlightStates
    /\ \A p \in 1..i : Done(p)
    /\ Len(all_results) = i

(* C22 as stated: when a probe of batch k+1 is scheduled, every outcome of *)
(* batch k (and of the batches before it) is counted in total.             *)
C22_FoldedBeforeNextBatch ==
    \A q \in 1..N :
        (BatchOf(q) > 0 /\ pc[q] # "pending") =>
            stats.total >= BatchOf(q) * batch_size

(* Every probe of the run has produced its outcome. *)
NoProbeLeft == \A p \in 1..N : Done(p)

(* C23: while some probe has not produced its outcome, results, errors and *)
(* the counters are as __init__ left them; they change only in a step of   *)
(* the fold loop, with no probe scheduled or in flight, and such a step    *)
(* folds one result, the next one of all_results.                          *)
C23_FoldAfterJoin ==
    /\ []((~NoProbeLeft) => ResultSetEmpty)
    /\ [][(ResultSet' # ResultSet) =>
            /\ runpc = "Folding"
            /\ runpc' = "Folding"
            /\ NoProbeLeft
            /\ InFlight = {}
            /\ k' = k + 1
            /\ stats'.total = stats.total + 1
            /\ stats.total = k - 1
            /\ Len(errors') + stats'.valid = Len(errors) + stats.valid
                    \/ Len(errors') + stats'.valid = Len(errors) + stats.valid + 1
       ]_vars

(* The fold loop has folded one of three results. *)
C23_Witness ==
    /\ runpc = "Folding"
    /\ N = 3
    /\ k = 2
    /\ stats.total = 1
    /\ NoProbeLeft

(* NotStarted, Running (the batches, then the fold loop), Completed. *)
Phase ==
    CASE runpc = "NotStarted" -> 0
      [] runpc \in {"Running", "Folding"} -> 1
      [] runpc = "Completed" -> 2
      [] OTHER -> 3

(* C24: a run is NotStarted, then Running, then Completed, and never goes  *)
(* back.  Before it starts the ResultSet is empty and no time is stamped;  *)
(* a probe is scheduled only with start_time stamped; end_time is stamped  *)
(* exactly in Completed, where all N outcomes are folded; and once         *)
(* end_time is stamped the ResultSet and the stamps do not change.         *)
C24_Lifecycle ==
    /\ [](Phase \in {0, 1, 2})
    /\ [][Phase' = Phase \/ Phase' = Phase + 1]_vars
    /\ [](runpc = "NotStarted" =>
            /\ ResultSetEmpty
            /\ stats.start_time = None
            /\ \A p \in 1..N : pc[p] = "pending")
    /\ []((\E p \in 1..N : pc[p] # "pending") => stats.start_time # None)
    /\ [](runpc # "NotStarted" => stats.start_time # None)
    /\ [](stats.end_time # None <=> runpc = "Completed")
    /\ [](runpc = "Completed" =>
            /\ NoProbeLeft
            /\ Len(all_results) = N
            /\ stats.total = N
            /\ k = N + 1)
    /\ [][stats.end_time # None => UNCHANGED <<results, errors, stats>>]_vars

C24_Witness ==
    /\ runpc = "Completed"
    /\ N = 3
    /\ stats.total = 3
    /\ stats.start_time = time(1)
    /\ stats.end_time = time(2)
    /\ stats.errors >= 1
    /\ stats.valid >= 1

----------------------------------------------------------------------------
(* The requests of one probe, again. *)

(* The first request of p, the HEAD, has ended with exception exc. *)
HeadRaised(p, exc) ==
    /\ log[p] # <<>>
    /\ log[p][1] = [method |-> "HEAD", event |-> Raises(exc)]

(* C25 as stated: when the HEAD request ends with an aiohttp.ClientError   *)
(* (a connector error or another one) a GET is issued, and when that GET   *)
(* returns a response the probe is a Success with the GET's status and the *)
(* size of its Content-Length.                                             *)
C25_HeadErrorFallsBackToGet ==
    \A p \in 1..N :
        \A exc \in {"ClientConnectorError", "ClientResponseError"} :
            HeadRaised(p, exc) =>
                /\ Issued(p, "GET") = 1
                /\ (Len(log[p]) >= 2 /\ IsResponse(log[p][2])) =>
                      /\ log[p][2].method = "GET"
                      /\ IsSuccess(p)
                      /\ ReportedFrom(p, log[p][2].event)

(* C26 as stated: a probe whose last request returned a response is a      *)
(* Success with that response's status, and its size is the value of the   *)
(* Content-Length header if the header is an integer, and 0 if the header  *)
(* is absent or is no integer.                                             *)
C26_SizeOrZero ==
    \A p \in 1..N :
        (Done(p) /\ IsResponse(Last(log[p]))) =>
            LET e == Last(log[p]).event
                header == e.content_length
            IN  /\ IsSuccess(p)
                /\ Val(outcome[p]).status = Some(e.status)
                /\ Val(outcome[p]).size =
                      IF header # None /\ int(Val(header)).ok
                      THEN Some(int(Val(header)).value)
                      ELSE Some(0)

(* C27: the step in which a probe fails changes nothing of any other       *)
(* probe (its place, its outcome, its requests) and leaves the run where   *)
(* it is; no probe's exception ends the run; every probe's outcome is the  *)
(* one its own requests decide; and a run in which a probe failed is       *)
(* completed all the same, with all N outcomes folded.                     *)
C27_FailureIsLocal ==
    /\ [][\A p \in 1..N :
            (pc[p] # "done" /\ pc'[p] = "done" /\ Val(outcome'[p]).error # None) =>
                /\ runpc' = runpc
                /\ all_results' = all_results
                /\ \A q \in 1..N \ {p} :
                      /\ pc'[q] = pc[q]
                      /\ outcome'[q] = outcome[q]
                      /\ log'[q] = log[q]
                      /\ caught'[q] = caught[q]
       ]_vars
    /\ [](runpc # "Aborted" /\ \A p \in 1..N : pc[p] # "raised")
    /\ [](\A q \in 1..N : Done(q) => outcome[q] = Some(DictFromLog(q)))
    /\ ((\E p \in 1..N : IsFailure(p)) ~>
            (runpc = "Completed" /\ NoProbeLeft /\ stats.total = N))

(* The first probe timed out, the second one of its batch has a response,  *)
(* and the run is completed.                                               *)
C27_Witness ==
    /\ runpc = "Completed"
    /\ N = 3
    /\ IsFailure(1)
    /\ Val(outcome[1]).error = Some("Timeout")
    /\ IsSuccess(2)
    /\ Done(3)
    /\ stats.total = 3

(* C28: all_results holds, at position j, the outcome of the j-th URL, for *)
(* the batches joined so far; and the completed run's results, errors and  *)
(* counters are those of folding, in URL order, the dicts the probes'      *)
(* requests decide: they do not depend on the order the probes ended in.   *)
C28_ResultsInUrlOrder ==
    /\ Len(all_results) =
          (IF runpc = "NotStarted" THEN 0 ELSE IF runpc = "Running" THEN i ELSE N)
    /\ \A j \in 1..Len(all_results) :
          /\ all_results[j].url = urls[j]
          /\ all_results[j] = Val(outcome[j])
          /\ all_results[j] = DictFromLog(j)
    /\ runpc = "Completed" =>
          LET other == FoldAll([j \in 1..N |-> DictFromLog(j)])
          IN  /\ results = other.results
              /\ errors = other.errors
              /\ Counters = <<other.stats.total, other.stats.valid,
                              other.stats.errors>>

(* Two probes of one batch, run with two permits, that needed three        *)
(* requests and one: A and C are kept in the order of the URLs, B is the   *)
(* failure.                                                                *)
C28_Witness ==
    /\ runpc = "Completed"
    /\ concurrency = 2
    /\ N = 3
    /\ Len(log[1]) = 3
    /\ Len(log[2]) = 1
    /\ results = (200 :> (0 :> <<"A", "C">>))
    /\ UrlsOf(errors) = <<"B">>

(* C29: a HEAD request that times out is the probe's only request: no GET  *)
(* is issued, and the probe is a Failure with the reason Timeout.          *)
C29_HeadTimeoutNoFallback ==
    \A p \in 1..N :
        HeadRaised(p, "TimeoutError") =>
            /\ Len(log[p]) = 1
            /\ Issued(p, "GET") = 0
            /\ pc[p] \notin {"get_nested", "get_fallback"}
            /\ IsFailure(p)
            /\ Val(outcome[p]).error = Some("Timeout")

C29_Witness ==
    /\ HeadRaised(1, "TimeoutError")
    /\ Done(1)
    /\ Val(outcome[1]) = Failure("A", "Timeout")

(* C30 as stated: after a HEAD request that failed to connect a GET is     *)
(* issued and decides the outcome: Success if it returns a response,       *)
(* DNS/Connection exactly if it fails to connect too, Timeout if it times  *)
(* out; and no probe has the reason DNS/Connection without a GET issued.   *)
C30_ConnectFailureDecidedByGet ==
    /\ \A p \in 1..N :
          HeadRaised(p, "ClientConnectorError") =>
              /\ Issued(p, "GET") = 1
              /\ Done(p) =>
                    LET get == log[p][2]
                    IN  /\ Len(log[p]) = 2
                        /\ get.method = "GET"
                        /\ IsResponse(get) => IsSuccess(p)
                        /\ (get.event = Raises("ClientConnectorError")) <=>
                              (Val(outcome[p]).error = Some("DNS/Connection"))
                        /\ (get.event = Raises("TimeoutError")) =>
                              (Val(outcome[p]).error = Some("Timeout"))
    /\ \A p \in 1..N :
          (IsFailure(p) /\ Val(outcome[p]).error = Some("DNS/Connection")) =>
              Issued(p, "GET") >= 1

----------------------------------------------------------------------------
(* The run under fair scheduling: the event loop runs every task that can  *)
(* run, and every request that was issued ends.                            *)
FairNet ==
    [head |-> {Response(404, None), Response(405, None),
               Raises("TimeoutError"), Raises("ClientConnectorError")},
     get  |-> {Response(200, None), Raises("ClientConnectorError")}]

InitFair == \E n \in 0..MaxN, c \in 1..MaxConcurrency : InitWith(n, c, FairNet)

FairSpec == InitFair /\ [][Next]_vars /\ WF_vars(Next)

AllFailed == \A p \in 1..N : IsFailure(p)

(* C7: with concurrency >= 1 the run is eventually completed, with every   *)
(* probe done, all N outcomes folded and end_time stamped; while a probe   *)
(* waits for a permit, a permit is free or a probe in flight holds one     *)
(* that its end gives back (so, the run being completed, every waiting     *)
(* probe got its permit); and a completed run whose probes all failed has  *)
(* errors = N and valid = 0.                                               *)
C7_RunCompletes ==
    /\ <>(/\ runpc = "Completed"
          /\ \A p \in 1..N : Done(p)
          /\ stats.total = N
          /\ stats.end_time # None)
    /\ []((\E p \in 1..N : pc[p] = "waiting") =>
            (semaphore > 0 \/ InFlight # {}))
    /\ []((runpc = "Completed" /\ AllFailed) =>
            (stats.errors = N /\ stats.valid = 0))

C7_Witness ==
    /\ runpc = "Completed"
    /\ N = 3
    /\ AllFailed
    /\ stats.errors = 3
    /\ stats.end_time # None

====
